---- MODULE Spec2Model ----
(***************************************************************************)
(* State-machine model of the camera pipeline of CM3070_django_app:       *)
(*   camera/video_camera.py  VideoCamera  (capture path, alert rate limit, *)
(*                                         recognition worker, clip timer) *)
(*   camera/send_email.py    SendEmail    (alert composition and dispatch) *)
(* Every action is one statement (or one lock-protected block) of the     *)
(* source; threads interleave between actions.                            *)
(***************************************************************************)
EXTENDS Integers, Sequences, FiniteSets, TLC

\* ---------------------------------------------------------------- bounds
MaxTicks == 4          \* clock advances per run
MaxFaceTicks == 1      \* clock advances per run with the recognition worker running
MaxShort == 1          \* frames the worker is short of a recognition pass at pick-up
MaxFrames == 4         \* device reads per run with the clock running
MaxEvents == 3         \* log_event calls per run made by concurrent callers
MaxLog == 2            \* SendEmail.log_event calls per run
MaxSnap == 3           \* frames handed to SendEmail.frame_buffer per run
MaxBurst == 22         \* device reads per run within one alert interval
MaxCalls == 3          \* detect_movement calls per run
MaxGallery == 3        \* known faces loaded
MaxQueries == 2        \* faces recognised per run
MaxRefused == 3        \* get_frame calls per run on a camera without a device
MaxChunks == 2         \* audio chunks read per run
MaxListeners == 2      \* listeners registered per run
MaxStreams == 2        \* VideoStream objects alive at one time

\* ------------------------------------------------------ program constants
alert_interval == 30
frame_skip_interval == 2
num_frames == 2
save_interval == 60
face_recognition_interval == 10
\* the cap the specification gives the snapshot buffer; in the source only
\* ObjectClassifier.prediction_buffer is capped, deque(maxlen=buffer_size)
buffer_size == 10
thresh == 25
min_area == 500
\* recognition_threshold=5.0, distances being counted in tenths
recognition_threshold == 50
volume_threshold == 1000

Threads == {"t1", "t2"}

VARIABLES
    now,              \* time.time(), seconds since construction
    ticks,            \* clock advances a run may still make
    video,            \* self.video is an opened capture device
    captured,         \* frames read (or events raised) so far: the identity of each
    budget,           \* how many of them a run may take
    frame_count,      \* self.frame_count
    frames,           \* self.frames: recognition queue
    frame_buffer,     \* self.frame_buffer: snapshot buffer
    running_buffer,   \* self.running_buffer
    alert_buffer,     \* self.alert_buffer: alert log
    last_alert_time,  \* self.last_alert_time
    detected_faces,   \* self.detected_faces: the list object it refers to
    lock,             \* self.lock: "free" or the holder
    pc,               \* position of every get_frame caller
    local,            \* local variables of every get_frame caller
    attempts,         \* history: time of every send_email_snapshot call made by log_event
    events,           \* history: time of every log_event rate check
    stamps,           \* history: time of every assignment to last_alert_time
    outbox,           \* history: messages accepted by the SMTP server
    appended,         \* history: frames ever appended to running_buffer
    save_timer,       \* state of the Timer object self.save_timer refers to
    armed_at,         \* when that Timer was started
    torn_down,        \* __del__ has run
    tpc,              \* position of the running save_running_buffer_clip callback
    ti,               \* its index into the list the for loop iterates
    handed,           \* history: length of that list when the loop took it
    out,              \* frames written to its open VideoWriter
    encoded,          \* history: frames in released clip files
    cycle,            \* history: how the latest finished callback ended
    se_request,       \* SendEmail.request is set
    se_alert_buffer,  \* SendEmail.alert_buffer
    se_frame_buffer,  \* SendEmail.frame_buffer
    se_detected_faces,\* SendEmail.detected_faces
    se_video_file_path, \* SendEmail.video_file_path
    mpc,              \* position of the thread inside SendEmail.send_email_snapshot
    mlocal,           \* its local variables: the message being composed
    before,           \* history: the three fields when send_email_snapshot was called
    result,           \* history: how the latest send_email_snapshot call ended
    se_logged,        \* history: entries passed to SendEmail.log_event so far
    se_added,         \* history: frames put into SendEmail.frame_buffer so far
    se_outbox,        \* history: messages accepted by the SMTP server
    lists,            \* the face-list objects created so far, by identity
    wpc,              \* position of the worker thread inside _process_frames
    face_recognition_counter, \* self.face_recognition_counter
    wfaces,           \* _recognize_faces: detections the for loop has still to visit
    recognized_faces, \* _recognize_faces: the list object its local variable refers to
    published,        \* history: contents of every list assigned to self.detected_faces
    previous_frame,   \* MovementDetection.previous_frame
    fed,              \* history: the frames passed to detect_movement
    verdicts,         \* history: what each detect_movement call returned
    known_faces,      \* known_faces_features zipped with known_faces_labels
    recognized,       \* history: every face labelled, by which class and with what
    built,            \* outcome of the VideoCamera(...) call: "no" before it is made
    ctor_call,        \* its camera_index keyword argument, -1 when not given
    device,           \* the index cv2.VideoCapture was called with, -1 before the call
    is_opened,        \* what isOpened() reported
    initialized,      \* the instance's attribute `initialized`, "absent" when it has none
    refused,          \* history: get_frame calls that returned None for want of a device
    pcms,             \* the capture devices alsaaudio.pcms() lists
    opens,            \* the devices a probing alsaaudio.PCM(...) opens
    a_built,          \* an AudioSource has been constructed
    a_arg,            \* the device argument of its constructor
    a_device,         \* AudioSource.device
    inp,              \* AudioSource.inp is an open PCM
    started,          \* AudioSource.started
    thread,           \* AudioSource.thread: "none" or "started"
    named,            \* history: what the latest get_device_name() returned
    start_called,     \* history: start() has been called
    upc,              \* position of the capture thread inside update
    volume,           \* update: the volume of the chunk in hand
    listeners,        \* AudioSource.listeners
    chunks,           \* history: volume of every chunk read with length > 0
    calls,            \* history: every listener call made, with the chunk and the value
    spc,              \* position of a client thread inside stop()
    stop_requested,   \* history: a client has called stop()
    streams,          \* the VideoStream objects, with the position of each one's thread
    cameras,          \* CameraManager.cameras: camera_id -> VideoStream (0: absent)
    mlock,            \* CameraManager.lock
    cpc,              \* position of each caller inside a CameraManager method
    cop,              \* the call each caller is making
    cres              \* what the call now returning found and returns

camVars == <<now, ticks, video, captured, budget, frame_count, frames, frame_buffer, running_buffer,
             alert_buffer, last_alert_time, detected_faces, lock, pc, local,
             attempts, events, stamps, outbox, appended>>

timerVars == <<save_timer, armed_at, torn_down, tpc, ti, handed, out, encoded, cycle>>

mailVars == <<se_request, se_alert_buffer, se_frame_buffer, se_detected_faces,
              se_video_file_path, mpc, mlocal, before, result, se_logged, se_added,
              se_outbox>>

workerVars == <<lists, wpc, face_recognition_counter, wfaces, recognized_faces, published>>

motionVars == <<previous_frame, fed, verdicts>>

\* the components that are exercised on their own
recogVars == <<known_faces, recognized>>

constructVars == <<built, ctor_call, device, is_opened, initialized, refused>>

audioVars == <<pcms, opens, a_built, a_arg, a_device, inp, started, thread, named, start_called>>

captureVars == <<upc, volume, listeners, chunks, calls, spc, stop_requested>>

managerVars == <<streams, cameras, mlock, cpc, cop, cres>>

unitVars == <<motionVars, recogVars, constructVars, audioVars, captureVars, managerVars>>

\* what the capture path leaves alone
notCam == <<timerVars, mailVars, workerVars, unitVars>>

vars == <<camVars, timerVars, mailVars, workerVars, unitVars>>

NoLocal == [image |-> 0, direct |-> FALSE, count |-> 0, body |-> <<>>, faces |-> <<>>,
            selected |-> <<>>, copy |-> <<>>, ref |-> 0, i |-> 0]

NoMessage == [body |-> <<>>, faces |-> <<>>, images |-> <<>>, video |-> "None"]

None == <<>>

\* MovementDetection.__init__
InitMotion ==
    /\ previous_frame = None
    /\ fed = <<>>
    /\ verdicts = <<>>

\* load_known_faces has filled the gallery
InitGallery(gallery) ==
    /\ known_faces = gallery
    /\ recognized = <<>>

\* camera_instance = VideoCamera() has returned
InitBuilt ==
    /\ built = "yes"
    /\ ctor_call = -1
    /\ device = 0
    /\ is_opened = TRUE
    /\ initialized = "absent"
    /\ refused = 0

\* no AudioSource exists yet, on a host with the given ALSA capture devices
InitAudio(listed, opening) ==
    /\ pcms = listed
    /\ opens = opening
    /\ a_built = FALSE
    /\ a_arg = "None"
    /\ a_device = "None"
    /\ inp = FALSE
    /\ started = FALSE
    /\ thread = "none"
    /\ named = "unasked"
    /\ start_called = FALSE
    /\ upc = "none"
    /\ volume = 0
    /\ listeners = <<>>
    /\ chunks = <<>>
    /\ calls = <<>>
    /\ spc = "idle"
    /\ stop_requested = FALSE

\* the components exercised on their own, as constructed
CameraIds == {"front", "door"}
Callers == {"c1", "c2"}
Slots == 1..MaxStreams

NoStream == [id |-> "none", frame |-> "None", stopped |-> FALSE, upc |-> "none",
             grabbed |-> "None", slock |-> "free", latest |-> "None", failed |-> FALSE]

NoCall == [op |-> "none", id |-> "none"]

NoResult == [op |-> "none", registered |-> FALSE, frame |-> "None", owner |-> "none",
             latest |-> "None", failed |-> FALSE]

\* CameraManager.__init__: self.cameras = {}; self.lock = threading.Lock(); the
\* domain of cameras is the set of ids the callers use
InitManagerFor(ids) ==
    /\ streams = [s \in Slots |-> NoStream]
    /\ cameras = [camera_id \in ids |-> 0]
    /\ mlock = "free"
    /\ cpc = [c \in Callers |-> "idle"]
    /\ cop = [c \in Callers |-> NoCall]
    /\ cres = NoResult

InitManager == InitManagerFor(CameraIds)

InitUnits == InitMotion /\ InitGallery(<<>>) /\ InitBuilt /\ InitAudio({}, {}) /\ InitManager

\* SendEmail.__init__(request)
InitMail ==
    /\ se_request \in BOOLEAN
    /\ se_alert_buffer = <<>>
    /\ se_frame_buffer = <<>>
    /\ se_detected_faces = <<>>
    /\ se_video_file_path = "None"
    /\ mpc = "idle"
    /\ mlocal = NoMessage
    /\ before = <<>>
    /\ result = "none"
    /\ se_logged = 0
    /\ se_added = 0
    /\ se_outbox = <<>>

\* VideoCamera.__init__: threading.Timer(60, self.save_running_buffer_clip).start()
InitTimer ==
    /\ save_timer = "pending"
    /\ armed_at = 0
    /\ torn_down = FALSE
    /\ tpc = "none"
    /\ ti = 0
    /\ handed = 0
    /\ out = <<>>
    /\ encoded = {}
    /\ cycle = "none"

\* VideoCamera.__init__: face_recognition_counter, detected_faces = [] (list object 1)
\* and the submitted worker. A run may also be picked up later, when the worker has
\* consumed `done` frames since its last pass, self.detected_faces holds `shown`, and
\* a dispatch and a clip save have just emptied the buffers.
InitWorker(done, shown) ==
    /\ lists = <<shown>>
    /\ wpc = "poll"
    /\ face_recognition_counter = done
    /\ wfaces = <<>>
    /\ recognized_faces = 0
    /\ published = {shown}

\* VideoCamera.__init__ with the device opened; the clock starts at construction
InitCamera ==
    /\ now = 0
    /\ ticks \in {MaxTicks, MaxFaceTicks}
    /\ video = TRUE
    /\ captured = 0
    /\ budget \in {MaxFrames, MaxEvents, MaxBurst}
    /\ frame_count = 0
    /\ frames = <<>>
    /\ frame_buffer = <<>>
    /\ running_buffer = <<>>
    /\ alert_buffer = <<>>
    /\ last_alert_time = now
    /\ detected_faces = 1
    /\ lock = "free"
    /\ pc = [t \in Threads |-> "idle"]
    /\ local = [t \in Threads |-> NoLocal]
    /\ attempts = <<>>
    /\ events = <<>>
    /\ stamps = <<>>
    /\ outbox = <<>>
    /\ appended = {}

\* select_representative_frames(frames, num_frames)
select_representative_frames(fs, n) ==
    IF Len(fs) <= n
    THEN fs
    ELSE LET interval == Len(fs) \div n
         IN  [k \in 1..n |-> fs[(k - 1) * interval + 1]]

Goto(t, label) == pc' = [pc EXCEPT ![t] = label]

AlertDueStrict(t_now, t_last) == t_now - t_last > alert_interval

\* the rate test of log_event
AlertDue(t_now, t_last) == t_now - t_last >= alert_interval

\* the pauses the clock is observed to make: a second, just under, exactly and
\* (as 30 + 1) just over the alert interval
Durations == {1, alert_interval - 1, alert_interval}

\* the clock advances while every caller is outside get_frame or blocked in SMTP I/O
Tick ==
    /\ ticks > 0
    /\ \A t \in Threads : pc[t] \in {"idle", "smtp"}
    /\ \E d \in Durations : now' = now + d
    /\ ticks' = ticks - 1
    /\ UNCHANGED <<video, captured, budget, frame_count, frames, frame_buffer, running_buffer,
                   alert_buffer, last_alert_time, detected_faces, lock, pc, local,
                   attempts, events, stamps, outbox, appended>>
    /\ UNCHANGED notCam

\* get_frame: device check and read
GF_Read(t) ==
    /\ pc[t] = "idle"
    /\ captured < budget
    /\ IF ~video
       THEN UNCHANGED <<captured, pc, local>>
       ELSE \E success \in BOOLEAN :
              IF success /\ ~torn_down
              THEN /\ captured' = captured + 1
                   /\ local' = [local EXCEPT ![t] =
                                  [NoLocal EXCEPT !.image = captured + 1,
                                                  !.count = frame_count]]
                   /\ Goto(t, "count")
              ELSE UNCHANGED <<captured, pc, local>>
    /\ UNCHANGED <<now, ticks, video, budget, frame_count, frames, frame_buffer, running_buffer,
                   alert_buffer, last_alert_time, detected_faces, lock,
                   attempts, events, stamps, outbox, appended>>
    /\ UNCHANGED notCam

GF_CountAll(t) ==
    /\ pc[t] = "count"
    /\ frame_count' = local[t].count + 1
    /\ Goto(t, "detect")
    /\ UNCHANGED local
    /\ UNCHANGED <<now, ticks, video, captured, budget, frames, frame_buffer, running_buffer,
                   alert_buffer, last_alert_time, detected_faces, lock,
                   attempts, events, stamps, outbox, appended>>
    /\ UNCHANGED notCam

\* get_frame: self.frame_count += 1 and the frame-skip test
GF_Count(t) ==
    /\ pc[t] = "count"
    /\ frame_count' = local[t].count + 1
    /\ IF frame_count' % frame_skip_interval # 0
       THEN /\ Goto(t, "idle")
            /\ local' = [local EXCEPT ![t] = NoLocal]
       ELSE /\ Goto(t, "detect")
            /\ UNCHANGED local
    /\ UNCHANGED <<now, ticks, video, captured, budget, frames, frame_buffer, running_buffer,
                   alert_buffer, last_alert_time, detected_faces, lock,
                   attempts, events, stamps, outbox, appended>>
    /\ UNCHANGED notCam

\* get_frame: detect_movement's verdict on the image (an input of the model)
GF_Detect(t) ==
    /\ pc[t] = "detect"
    /\ \E movement_detected \in BOOLEAN :
         Goto(t, IF movement_detected THEN "frames" ELSE "faces")
    /\ UNCHANGED <<now, ticks, video, captured, budget, frame_count, frames, frame_buffer,
                   running_buffer, alert_buffer, last_alert_time, detected_faces,
                   lock, local, attempts, events, stamps, outbox, appended>>
    /\ UNCHANGED notCam

\* get_frame: with self.lock: self.frames.append(image.copy())
AppendFrames(q, image) == Append(q, image)

GF_Frames(t) ==
    /\ pc[t] = "frames"
    /\ lock = "free"
    /\ frames' = AppendFrames(frames, local[t].image)
    /\ Goto(t, "frame_buffer")
    /\ UNCHANGED <<now, ticks, video, captured, budget, frame_count, frame_buffer, running_buffer,
                   alert_buffer, last_alert_time, detected_faces, lock, local,
                   attempts, events, stamps, outbox, appended>>
    /\ UNCHANGED notCam

\* get_frame: self.frame_buffer.append(image.copy())
AppendFrameBuffer(b, image) == Append(b, image)

GF_FrameBuffer(t) ==
    /\ pc[t] = "frame_buffer"
    /\ frame_buffer' = AppendFrameBuffer(frame_buffer, local[t].image)
    /\ Goto(t, "running_buffer")
    /\ UNCHANGED <<now, ticks, video, captured, budget, frame_count, frames, running_buffer,
                   alert_buffer, last_alert_time, detected_faces, lock, local,
                   attempts, events, stamps, outbox, appended>>
    /\ UNCHANGED notCam

\* get_frame: self.running_buffer.append(image.copy())
GF_RunningBuffer(t) ==
    /\ pc[t] = "running_buffer"
    /\ running_buffer' = Append(running_buffer, local[t].image)
    /\ appended' = appended \cup {local[t].image}
    /\ Goto(t, "log_append")
    /\ UNCHANGED <<now, ticks, video, captured, budget, frame_count, frames, frame_buffer,
                   alert_buffer, last_alert_time, detected_faces, lock, local,
                   attempts, events, stamps, outbox>>
    /\ UNCHANGED notCam

\* log_event(event) called by a thread of its own, outside get_frame
LE_Call(t) ==
    /\ pc[t] = "idle"
    /\ captured < budget
    /\ captured' = captured + 1
    /\ local' = [local EXCEPT ![t] = [NoLocal EXCEPT !.image = captured + 1,
                                                     !.direct = TRUE]]
    /\ Goto(t, "log_append")
    /\ UNCHANGED <<now, ticks, video, budget, frame_count, frames, frame_buffer,
                   running_buffer, alert_buffer, last_alert_time, detected_faces,
                   lock, attempts, events, stamps, outbox, appended>>
    /\ UNCHANGED notCam

\* where log_event returns to: the rest of get_frame, or its direct caller
AfterLogEvent(t) == IF local[t].direct THEN "log_return" ELSE "faces"

LE_Return(t) ==
    /\ pc[t] = "log_return"
    /\ local' = [local EXCEPT ![t] = NoLocal]
    /\ Goto(t, "idle")
    /\ UNCHANGED <<now, ticks, video, captured, budget, frame_count, frames, frame_buffer,
                   running_buffer, alert_buffer, last_alert_time, detected_faces,
                   lock, attempts, events, stamps, outbox, appended>>
    /\ UNCHANGED notCam

\* log_event: self.alert_buffer.append(log_entry)
LE_Append(t) ==
    /\ pc[t] = "log_append"
    /\ alert_buffer' = Append(alert_buffer, local[t].image)
    /\ Goto(t, "log_check")
    /\ UNCHANGED <<now, ticks, video, captured, budget, frame_count, frames, frame_buffer,
                   running_buffer, last_alert_time, detected_faces, lock, local,
                   attempts, events, stamps, outbox, appended>>
    /\ UNCHANGED notCam

\* log_event: if time.time() - self.last_alert_time >= self.alert_interval
LE_Check(t) ==
    /\ pc[t] = "log_check"
    /\ events' = Append(events, now)
    /\ IF AlertDue(now, last_alert_time)
       THEN /\ attempts' = Append(attempts, now)
            /\ Goto(t, "send")
       ELSE /\ UNCHANGED attempts
            /\ Goto(t, AfterLogEvent(t))
    /\ UNCHANGED <<now, ticks, video, captured, budget, frame_count, frames, frame_buffer,
                   running_buffer, alert_buffer, last_alert_time, detected_faces,
                   lock, local, stamps, outbox, appended>>
    /\ UNCHANGED notCam

\* send_email_snapshot: the empty-log test and body = "\n".join(self.alert_buffer)
SE_Body(t) ==
    /\ pc[t] = "send"
    /\ IF alert_buffer = <<>>
       THEN /\ Goto(t, "stamp")
            /\ UNCHANGED local
       ELSE /\ local' = [local EXCEPT ![t].body = alert_buffer]
            /\ Goto(t, "send_faces")
    /\ UNCHANGED <<now, ticks, video, captured, budget, frame_count, frames, frame_buffer,
                   running_buffer, alert_buffer, last_alert_time, detected_faces,
                   lock, attempts, events, stamps, outbox, appended>>
    /\ UNCHANGED notCam

\* send_email_snapshot: if self.detected_faces
SE_FacesTest(t) ==
    /\ pc[t] = "send_faces"
    /\ Goto(t, IF lists[detected_faces] # <<>> THEN "send_for" ELSE "send_frames")
    /\ UNCHANGED <<now, ticks, video, captured, budget, frame_count, frames, frame_buffer,
                   running_buffer, alert_buffer, last_alert_time, detected_faces,
                   lock, local, attempts, events, stamps, outbox, appended>>
    /\ UNCHANGED notCam

\* send_email_snapshot: enumerate(self.detected_faces) takes the list to iterate
SE_FacesIter(t) ==
    /\ pc[t] = "send_for"
    /\ local' = [local EXCEPT ![t].ref = detected_faces, ![t].i = 1]
    /\ Goto(t, "send_labels")
    /\ UNCHANGED <<now, ticks, video, captured, budget, frame_count, frames, frame_buffer,
                   running_buffer, alert_buffer, last_alert_time, detected_faces,
                   lock, attempts, events, stamps, outbox, appended>>
    /\ UNCHANGED notCam

\* send_email_snapshot: for i, face in ...: body += f"Person {i + 1}: {label}"
\* (the list iterator reads the live list, one index per iteration)
SE_FacesLabels(t) ==
    /\ pc[t] = "send_labels"
    /\ IF local[t].i <= Len(lists[local[t].ref])
       THEN /\ local' = [local EXCEPT ![t].faces = Append(@, lists[local[t].ref][local[t].i]),
                                      ![t].i = @ + 1]
            /\ UNCHANGED pc
       ELSE /\ Goto(t, "send_frames")
            /\ UNCHANGED local
    /\ UNCHANGED <<now, ticks, video, captured, budget, frame_count, frames, frame_buffer,
                   running_buffer, alert_buffer, last_alert_time, detected_faces,
                   lock, attempts, events, stamps, outbox, appended>>
    /\ UNCHANGED notCam

\* send_email_snapshot: the image attachments of the message
Attachments(buffer) == select_representative_frames(buffer, num_frames)

SE_Frames(t) ==
    /\ pc[t] = "send_frames"
    /\ local' = [local EXCEPT ![t].selected = Attachments(frame_buffer)]
    /\ Goto(t, "smtp")
    /\ UNCHANGED <<now, ticks, video, captured, budget, frame_count, frames, frame_buffer,
                   running_buffer, alert_buffer, last_alert_time, detected_faces,
                   lock, attempts, events, stamps, outbox, appended>>
    /\ UNCHANGED notCam

\* send_email_snapshot: smtplib connect, starttls, login, sendmail, quit
SE_Smtp(t) ==
    /\ pc[t] = "smtp"
    /\ \E ok \in BOOLEAN :
         IF ok
         THEN /\ outbox' = Append(outbox, [body |-> local[t].body,
                                           faces |-> local[t].faces,
                                           images |-> local[t].selected])
              /\ Goto(t, "clear_alert")
         ELSE /\ UNCHANGED outbox
              /\ Goto(t, "stamp")
    /\ UNCHANGED <<now, ticks, video, captured, budget, frame_count, frames, frame_buffer,
                   running_buffer, alert_buffer, last_alert_time, detected_faces,
                   lock, local, attempts, events, stamps, appended>>
    /\ UNCHANGED notCam

\* send_email_snapshot: self.alert_buffer = []
SE_ClearAlert(t) ==
    /\ pc[t] = "clear_alert"
    /\ alert_buffer' = <<>>
    /\ Goto(t, "clear_frames")
    /\ UNCHANGED <<now, ticks, video, captured, budget, frame_count, frames, frame_buffer,
                   running_buffer, last_alert_time, detected_faces, lock, local,
                   attempts, events, stamps, outbox, appended>>
    /\ UNCHANGED notCam

\* send_email_snapshot: self.frame_buffer = []
SE_ClearFrames(t) ==
    /\ pc[t] = "clear_frames"
    /\ frame_buffer' = <<>>
    /\ Goto(t, "stamp")
    /\ UNCHANGED <<now, ticks, video, captured, budget, frame_count, frames, running_buffer,
                   alert_buffer, last_alert_time, detected_faces, lock, local,
                   attempts, events, stamps, outbox, appended>>
    /\ UNCHANGED notCam

\* log_event: self.last_alert_time = time.time()
LE_Stamp(t) ==
    /\ pc[t] = "stamp"
    /\ last_alert_time' = now
    /\ stamps' = Append(stamps, now)
    /\ Goto(t, AfterLogEvent(t))
    /\ UNCHANGED <<now, ticks, video, captured, budget, frame_count, frames, frame_buffer,
                   running_buffer, alert_buffer, detected_faces, lock, local,
                   attempts, events, outbox, appended>>
    /\ UNCHANGED notCam

\* get_frame: with self.lock (entering the block that copies self.detected_faces)
GF_FacesLock(t) ==
    /\ pc[t] = "faces"
    /\ lock = "free"
    /\ lock' = t
    /\ local' = [local EXCEPT ![t].copy = <<>>, ![t].ref = detected_faces, ![t].i = 1]
    /\ Goto(t, "faces_copy")
    /\ UNCHANGED <<now, ticks, video, captured, budget, frame_count, frames, frame_buffer,
                   running_buffer, alert_buffer, last_alert_time, detected_faces,
                   attempts, events, stamps, outbox, appended>>
    /\ UNCHANGED notCam

\* get_frame: for face in self.detected_faces: detected_faces.append(face)
\* (the list iterator reads the live list, one index per iteration)
GF_FacesCopy(t) ==
    /\ pc[t] = "faces_copy"
    /\ IF local[t].i <= Len(lists[local[t].ref])
       THEN /\ local' = [local EXCEPT ![t].copy = Append(@, lists[local[t].ref][local[t].i]),
                                      ![t].i = @ + 1]
            /\ UNCHANGED <<lock, pc>>
       ELSE /\ lock' = "free"
            /\ Goto(t, "overlay")
            /\ UNCHANGED local
    /\ UNCHANGED <<now, ticks, video, captured, budget, frame_count, frames, frame_buffer,
                   running_buffer, alert_buffer, last_alert_time, detected_faces,
                   attempts, events, stamps, outbox, appended>>
    /\ UNCHANGED notCam

\* get_frame: overlay of the copied faces, timestamp, JPEG encoding, return
GF_Return(t) ==
    /\ pc[t] = "overlay"
    /\ local' = [local EXCEPT ![t] = NoLocal]
    /\ Goto(t, "idle")
    /\ UNCHANGED <<now, ticks, video, captured, budget, frame_count, frames, frame_buffer,
                   running_buffer, alert_buffer, last_alert_time, detected_faces,
                   lock, attempts, events, stamps, outbox, appended>>
    /\ UNCHANGED notCam

\* one step of log_event, with the send_email_snapshot it calls, by caller t
LogEvent(t) ==
    \/ LE_Append(t) \/ LE_Check(t)
    \/ SE_Body(t) \/ SE_FacesTest(t) \/ SE_Frames(t)
    \/ SE_Smtp(t) \/ SE_ClearAlert(t) \/ SE_ClearFrames(t)
    \/ LE_Stamp(t)

\* one step of get_frame outside log_event by caller t
GetFrame(t) ==
    \/ GF_Read(t) \/ GF_Count(t) \/ GF_Detect(t)
    \/ GF_Frames(t) \/ GF_FrameBuffer(t) \/ GF_RunningBuffer(t)
    \/ GF_FacesLock(t) \/ GF_FacesCopy(t) \/ GF_Return(t)

\* --------------------------------------------------------------------
\* The recognition worker: _process_frames runs on the executor's thread

camButQueue == <<now, ticks, video, captured, budget, frame_count, frame_buffer,
                 running_buffer, alert_buffer, last_alert_time, lock, pc, local,
                 attempts, events, stamps, outbox, appended>>

\* what _detect_faces finds in a frame, by the label recognition gives each face
DetectedSets == {<<>>, <<"bob">>, <<"alice", "Unknown">>}

\* _process_frames: if not self.frames: sleep and retry (no change of state)
W_Poll ==
    /\ wpc = "poll"
    /\ frames # <<>>
    /\ wpc' = "pop"
    /\ UNCHANGED <<lists, face_recognition_counter, wfaces, recognized_faces, published>>
    /\ UNCHANGED <<frames, detected_faces, camButQueue, timerVars, mailVars, unitVars>>

\* _process_frames: with self.lock: frame = self.frames.pop(0)
W_Pop ==
    /\ wpc = "pop"
    /\ lock = "free"
    /\ IF frames = <<>>
       THEN /\ wpc' = "dead"
            /\ UNCHANGED frames
       ELSE /\ frames' = Tail(frames)
            /\ wpc' = "count"
    /\ UNCHANGED <<lists, face_recognition_counter, wfaces, recognized_faces, published>>
    /\ UNCHANGED <<detected_faces, camButQueue, timerVars, mailVars, unitVars>>

\* _process_frames: self.face_recognition_counter += 1 and the interval test
W_Count ==
    /\ wpc = "count"
    /\ face_recognition_counter' = face_recognition_counter + 1
    /\ wpc' = IF face_recognition_counter' >= face_recognition_interval
              THEN "detect" ELSE "poll"
    /\ UNCHANGED <<lists, wfaces, recognized_faces, published>>
    /\ UNCHANGED <<frames, detected_faces, camButQueue, timerVars, mailVars, unitVars>>

W_DetectEarly ==
    /\ wpc = "detect"
    /\ \E found \in DetectedSets : wfaces' = found
    /\ lists' = Append(lists, <<>>)
    /\ recognized_faces' = Len(lists) + 1
    /\ detected_faces' = Len(lists) + 1
    /\ wpc' = "face"
    /\ UNCHANGED <<face_recognition_counter, published>>
    /\ UNCHANGED <<frames, camButQueue, timerVars, mailVars, unitVars>>

\* _recognize_faces: faces = self._detect_faces(...); recognized_faces = []
W_Detect ==
    /\ wpc = "detect"
    /\ \E found \in DetectedSets : wfaces' = found
    /\ lists' = Append(lists, <<>>)
    /\ recognized_faces' = Len(lists) + 1
    /\ wpc' = "face"
    /\ UNCHANGED <<face_recognition_counter, published>>
    /\ UNCHANGED <<frames, detected_faces, camButQueue, timerVars, mailVars, unitVars>>

\* _recognize_faces: one iteration of for face in faces: a box outside the frame or an
\* empty crop is skipped; otherwise the face is labelled, appended to the local list
\* and saved by save_face_image, which may raise and end the worker
W_Face ==
    /\ wpc = "face"
    /\ IF wfaces = <<>>
       THEN /\ wpc' = "publish"
            /\ UNCHANGED <<lists, wfaces>>
       ELSE \E inside \in BOOLEAN :
              IF ~inside
              THEN /\ wfaces' = Tail(wfaces)
                   /\ UNCHANGED <<lists, wpc>>
              ELSE /\ lists' = [lists EXCEPT ![recognized_faces] = Append(@, Head(wfaces))]
                   /\ \E saved \in BOOLEAN :
                        IF saved
                        THEN /\ wfaces' = Tail(wfaces)
                             /\ UNCHANGED wpc
                        ELSE /\ wfaces' = <<>>
                             /\ wpc' = "dead"
    /\ UNCHANGED <<face_recognition_counter, recognized_faces, published>>
    /\ UNCHANGED <<frames, detected_faces, camButQueue, timerVars, mailVars, unitVars>>

\* _recognize_faces: with self.lock: self.detected_faces = recognized_faces
W_Publish ==
    /\ wpc = "publish"
    /\ lock = "free"
    /\ detected_faces' = recognized_faces
    /\ published' = published \cup {lists[recognized_faces]}
    /\ wpc' = "reset"
    /\ UNCHANGED <<lists, face_recognition_counter, wfaces, recognized_faces>>
    /\ UNCHANGED <<frames, camButQueue, timerVars, mailVars, unitVars>>

\* _process_frames: self.face_recognition_counter = 0
W_Reset ==
    /\ wpc = "reset"
    /\ face_recognition_counter' = 0
    /\ recognized_faces' = 0
    /\ wpc' = "poll"
    /\ UNCHANGED <<lists, wfaces, published>>
    /\ UNCHANGED <<frames, detected_faces, camButQueue, timerVars, mailVars, unitVars>>

Worker ==
    \/ W_Poll \/ W_Pop \/ W_Count \/ W_Detect \/ W_Face \/ W_Publish \/ W_Reset

\* --------------------------------------------------------------------
\* The recurring clip timer: save_running_buffer_clip runs on the Timer's thread

camButRunning == <<now, ticks, video, captured, budget, frame_count, frames, frame_buffer,
                   alert_buffer, last_alert_time, detected_faces, lock, pc, local,
                   attempts, events, stamps, outbox, appended>>

\* the pending Timer expires and calls save_running_buffer_clip
T_Fire ==
    /\ save_timer = "pending"
    /\ now >= armed_at + save_interval
    /\ save_timer' = "fired"
    /\ tpc' = "check"
    /\ UNCHANGED <<armed_at, torn_down, ti, handed, out, encoded, cycle>>
    /\ UNCHANGED <<running_buffer, camButRunning, mailVars, workerVars, unitVars>>

\* the callback returns, or dies with an exception raised inside it
Finish(how) ==
    /\ tpc' = "none"
    /\ cycle' = how
    /\ ti' = 0
    /\ handed' = 0
    /\ out' = <<>>

\* save_running_buffer_clip: if self.running_buffer
T_Check ==
    /\ tpc = "check"
    /\ IF running_buffer # <<>>
       THEN /\ tpc' = "open"
            /\ UNCHANGED <<ti, handed, out, cycle>>
       ELSE Finish("empty")
    /\ UNCHANGED <<save_timer, armed_at, torn_down, encoded>>
    /\ UNCHANGED <<running_buffer, camButRunning, mailVars, workerVars, unitVars>>

\* save_running_buffer_clip: os.makedirs and cv2.VideoWriter(...); makedirs may raise
T_Open ==
    /\ tpc = "open"
    /\ \E ok \in BOOLEAN :
         IF ok
         THEN /\ tpc' = "write"
              /\ ti' = 1
              /\ handed' = Len(running_buffer)
              /\ out' = <<>>
              /\ UNCHANGED cycle
         ELSE Finish("failed")
    /\ UNCHANGED <<save_timer, armed_at, torn_down, encoded>>
    /\ UNCHANGED <<running_buffer, camButRunning, mailVars, workerVars, unitVars>>

\* save_running_buffer_clip: for frame in self.running_buffer: out.write(frame)
\* (the list iterator reads the live list, one index per iteration)
T_Write ==
    /\ tpc = "write"
    /\ IF ti <= Len(running_buffer)
       THEN /\ out' = Append(out, running_buffer[ti])
            /\ ti' = ti + 1
            /\ UNCHANGED tpc
       ELSE /\ tpc' = "release"
            /\ UNCHANGED <<ti, out>>
    /\ UNCHANGED handed
    /\ UNCHANGED <<save_timer, armed_at, torn_down, encoded, cycle>>
    /\ UNCHANGED <<running_buffer, camButRunning, mailVars, workerVars, unitVars>>

\* save_running_buffer_clip: out.release()
T_Release ==
    /\ tpc = "release"
    /\ encoded' = encoded \cup {out[k] : k \in 1..Len(out)}
    /\ tpc' = "save"
    /\ UNCHANGED <<save_timer, armed_at, torn_down, ti, handed, out, cycle>>
    /\ UNCHANGED <<running_buffer, camButRunning, mailVars, workerVars, unitVars>>

\* save_running_buffer_clip: Event(...).save(); the database may raise
T_Save ==
    /\ tpc = "save"
    /\ \E ok \in BOOLEAN :
         IF ok
         THEN /\ tpc' = "reset"
              /\ UNCHANGED <<ti, handed, out, cycle, running_buffer>>
         ELSE /\ Finish("failed")
              /\ UNCHANGED running_buffer
    /\ UNCHANGED <<save_timer, armed_at, torn_down, encoded>>
    /\ UNCHANGED <<camButRunning, mailVars, workerVars, unitVars>>

\* save_running_buffer_clip: self.running_buffer = []
T_Reset ==
    /\ tpc = "reset"
    /\ running_buffer' = <<>>
    /\ tpc' = "rearm"
    /\ UNCHANGED <<save_timer, armed_at, torn_down, ti, handed, out, encoded, cycle>>
    /\ UNCHANGED <<camButRunning, mailVars, workerVars, unitVars>>

\* save_running_buffer_clip: self.save_timer = threading.Timer(60, ...); start()
T_Rearm ==
    /\ tpc = "rearm"
    /\ save_timer' = "pending"
    /\ armed_at' = now
    /\ Finish("saved")
    /\ UNCHANGED <<torn_down, encoded>>
    /\ UNCHANGED <<running_buffer, camButRunning, mailVars, workerVars, unitVars>>

Timer ==
    \/ T_Fire \/ T_Check \/ T_Open \/ T_Write \/ T_Release \/ T_Save
    \/ T_Reset \/ T_Rearm

\* __del__: self.video.release(); self.save_timer.cancel(); executor.shutdown(wait=False)
Teardown ==
    /\ ~torn_down
    /\ torn_down' = TRUE
    /\ save_timer' = IF save_timer = "pending" THEN "cancelled" ELSE save_timer
    /\ UNCHANGED <<armed_at, tpc, ti, handed, out, encoded, cycle>>
    /\ UNCHANGED <<running_buffer, camButRunning, mailVars, workerVars, unitVars>>

\* Clip path: one streaming thread, the clip timer and teardown while the clock runs
InitClip ==
    /\ InitCamera /\ InitTimer /\ InitMail /\ InitWorker(0, <<>>) /\ InitUnits
    /\ se_request /\ ticks = MaxTicks /\ budget = MaxFrames

NextClip == Tick \/ GetFrame("t1") \/ LogEvent("t1") \/ Timer \/ Teardown

SpecClip == InitClip /\ [][NextClip]_vars

\* --------------------------------------------------------------------
\* Alert path: several threads calling log_event while the clock runs
InitAlert ==
    /\ InitCamera /\ InitTimer /\ InitMail /\ InitWorker(0, <<>>) /\ InitUnits
    /\ se_request /\ ticks = MaxTicks /\ budget = MaxEvents

NextAlert ==
    \/ Tick
    \/ \E t \in Threads : LE_Call(t) \/ LogEvent(t) \/ LE_Return(t)

SpecAlert == InitAlert /\ [][NextAlert]_vars

\* Alert path: one streaming thread calling get_frame while the clock runs
InitRate ==
    /\ InitCamera /\ InitTimer /\ InitMail /\ InitWorker(0, <<>>) /\ InitUnits
    /\ se_request /\ ticks = MaxTicks /\ budget = MaxFrames

NextRate == Tick \/ GetFrame("t1") \/ LogEvent("t1")

SpecRate == InitRate /\ [][NextRate]_vars

\* Faces path: one streaming thread and the recognition worker while the clock runs,
\* picked up when the worker is at most MaxShort frames short of a recognition pass
InitFaces ==
    /\ InitCamera /\ InitTimer /\ InitMail /\ InitUnits
    /\ \E short \in 0..MaxShort, shown \in DetectedSets :
         InitWorker(face_recognition_interval - 1 - short, shown)
    /\ se_request /\ ticks = MaxFaceTicks /\ budget = MaxFrames

NextFaces ==
    \/ Tick \/ GetFrame("t1") \/ LogEvent("t1")
    \/ SE_FacesIter("t1") \/ SE_FacesLabels("t1")
    \/ Worker

SpecFaces == InitFaces /\ [][NextFaces]_vars

\* Burst: one streaming thread and the recognition worker from construction, with
\* the clock standing still (all frames arrive within one alert interval)
InitBuf ==
    /\ InitCamera /\ InitTimer /\ InitMail /\ InitWorker(0, <<>>) /\ InitUnits
    /\ se_request /\ ticks = MaxTicks /\ budget = MaxBurst

NextBuf == GetFrame("t1") \/ LE_Append("t1") \/ LE_Check("t1") \/ Worker

SpecBuf == InitBuf /\ [][NextBuf]_vars

\* --------------------------------------------------------------------
\* MovementDetection (camera/movement_detection.py); VideoCamera.detect_movement is
\* the same code. A frame is flat within each of three regions that lie apart: it is
\* the grey level of each region, which cvtColor and GaussianBlur leave as it is.

Regions == 1..3
Levels == {0, thresh, thresh + 1}
Frames == [Regions -> Levels]

\* cv2.contourArea of the contour a region yields when it is lit in the dilated
\* difference image: below, above and at the floor, in the order findContours scans
RegionArea == <<min_area - 1, min_area + 1, min_area>>

absdiff(a, b) == [r \in Regions |-> IF a[r] >= b[r] THEN a[r] - b[r] ELSE b[r] - a[r]]

\* cv2.threshold(frame_diff, 25, 255, cv2.THRESH_BINARY), then dilate: the lit regions
Lit(frame_diff) == {r \in Regions : frame_diff[r] > thresh}

KeepBaseline(prev, gray) == prev

\* self.previous_frame = gray
NextBaseline(prev, gray) == gray

\* if cv2.contourArea(contour) < 500: continue
Skips(area) == area < min_area

Min(S) == CHOOSE x \in S : \A y \in S : x <= y

\* for contour in contours: the first one not skipped returns (True, its box)
FirstContour(contours) ==
    LET kept == {r \in contours : ~Skips(RegionArea[r])}
    IN  IF kept = {}
        THEN [detected |-> FALSE, box |-> 0]
        ELSE [detected |-> TRUE, box |-> Min(kept)]

\* detect_movement(frame)
DetectMovement ==
    /\ Len(fed) < MaxCalls
    /\ \E frame \in Frames :
         /\ fed' = Append(fed, frame)
         /\ IF previous_frame = None
            THEN /\ previous_frame' = frame
                 /\ verdicts' = Append(verdicts, [detected |-> FALSE, box |-> 0])
            ELSE /\ previous_frame' = NextBaseline(previous_frame, frame)
                 /\ verdicts' = Append(verdicts,
                                       FirstContour(Lit(absdiff(previous_frame, frame))))
    /\ UNCHANGED <<camVars, timerVars, mailVars, workerVars, recogVars, constructVars, audioVars, captureVars, managerVars>>

InitDetector ==
    /\ InitCamera /\ InitTimer /\ InitMail /\ InitWorker(0, <<>>) /\ InitUnits
    /\ se_request /\ ticks = MaxTicks /\ budget = MaxFrames

NextDetector == DetectMovement

SpecDetector == InitDetector /\ [][NextDetector]_vars

\* --------------------------------------------------------------------
\* Labelling a face: FacialRecognition.recognize_faces (camera/facial_recognition.py)
\* and VideoCamera._recognize_faces. A feature vector has one component, counted in
\* tenths, so that the Euclidean distance of two vectors is their absolute difference.

GalleryFeatures == {10, 49, 51, 90}
QueryFeatures == {0, 50}
Thresholds == {5, recognition_threshold}
GalleryLabels == <<"alice", "bob", "carol">>

Galleries ==
    UNION {[1..n -> GalleryFeatures] : n \in 0..MaxGallery}

\* load_known_faces: the label of a known face is its file name
Known(features) == [k \in 1..Len(features) |->
                       [features |-> features[k], label |-> GalleryLabels[k]]]

euclidean(a, b) == IF a >= b THEN a - b ELSE b - a

\* min_distance = float('inf') and the label the scan starts with
Unscanned(label) == [inf |-> TRUE, min_distance |-> 0, label |-> label]

\* if dist < min_distance
Closer(dist, best) == best.inf \/ dist < best.min_distance

\* for known_features, known_label in zip(...): keep the closest entry so far
RECURSIVE Scan(_, _, _, _)
Scan(gallery, features, k, best) ==
    IF k > Len(gallery)
    THEN best
    ELSE LET dist == euclidean(features, gallery[k].features)
         IN  Scan(gallery, features, k + 1,
                  IF Closer(dist, best)
                  THEN [inf |-> FALSE, min_distance |-> dist, label |-> gallery[k].label]
                  ELSE best)

\* if min_distance > recognition_threshold
Exceeds(best, threshold) == best.inf \/ best.min_distance > threshold

\* FacialRecognition.recognize_faces: label of one face
FR_Label(gallery, features, threshold) ==
    LET best == Scan(gallery, features, 1, Unscanned("Unknown"))
    IN  IF Exceeds(best, threshold) THEN "Unknown" ELSE best.label

\* VideoCamera._recognize_faces: face['label'] = label if label else 'Unknown'
VC_Label(gallery, features) ==
    LET best == Scan(gallery, features, 1, Unscanned("None"))
    IN  IF best.label = "None" THEN "Unknown" ELSE best.label

\* VideoCamera._recognize_faces: self.save_face_image(face_img, label) is handed the
\* local label, before the 'Unknown' substitution made for face['label']
VC_Stored(gallery, features) == Scan(gallery, features, 1, Unscanned("None")).label

\* FacialRecognition.recognize_faces: self.save_face_image(face_img, face['label'])
FR_Stored(gallery, features, threshold) == FR_Label(gallery, features, threshold)

\* FacialRecognition.recognize_faces(frame, recognition_threshold) labels a face
FR_RecognizeFaces ==
    /\ Len(recognized) < MaxQueries
    /\ \E features \in QueryFeatures, threshold \in Thresholds :
         recognized' = Append(recognized,
                              [by |-> "FacialRecognition", features |-> features,
                               threshold |-> threshold,
                               label |-> FR_Label(known_faces, features, threshold),
                               stored |-> FR_Stored(known_faces, features, threshold)])
    /\ UNCHANGED known_faces
    /\ UNCHANGED <<camVars, timerVars, mailVars, workerVars, motionVars, constructVars, audioVars, captureVars, managerVars>>

\* VideoCamera._recognize_faces(frame) labels a face; it takes no threshold, the
\* one in force is the default recognition_threshold
VC_RecognizeFaces ==
    /\ Len(recognized) < MaxQueries
    /\ \E features \in QueryFeatures :
         recognized' = Append(recognized,
                              [by |-> "VideoCamera", features |-> features,
                               threshold |-> recognition_threshold,
                               label |-> VC_Label(known_faces, features),
                               stored |-> VC_Stored(known_faces, features)])
    /\ UNCHANGED known_faces
    /\ UNCHANGED <<camVars, timerVars, mailVars, workerVars, motionVars, constructVars, audioVars, captureVars, managerVars>>

InitRecognizer ==
    /\ InitCamera /\ InitTimer /\ InitMail /\ InitWorker(0, <<>>) /\ InitMotion /\ InitBuilt
    /\ InitAudio({}, {}) /\ InitManager
    /\ \E features \in Galleries : InitGallery(Known(features))
    /\ se_request /\ ticks = MaxTicks /\ budget = MaxFrames

NextRecognizer == FR_RecognizeFaces \/ VC_RecognizeFaces

SpecRecognizer == InitRecognizer /\ [][NextRecognizer]_vars

\* --------------------------------------------------------------------
\* Construction of a VideoCamera and get_frame on a camera whose device did not open

\* the keyword arguments VideoCamera.__init__(self, resolution=(320, 240)) accepts
Parameters == {"resolution"}

\* the calls made: VideoCamera() and VideoCamera(camera_index=i)
CameraIndexes == {-1, 0, 1}

Keywords(camera_index) == IF camera_index = -1 THEN {} ELSE {"camera_index"}

camButVideo == <<now, ticks, captured, budget, frame_count, frames, frame_buffer,
                 running_buffer, alert_buffer, detected_faces, lock, pc, local,
                 attempts, events, stamps, outbox, appended>>

\* VideoCamera(...): a keyword the signature lacks raises TypeError before the body
\* runs; the body opens device 0 and drops self.video when it is not opened
Construct ==
    /\ built = "no"
    /\ \E camera_index \in CameraIndexes :
         /\ ctor_call' = camera_index
         /\ IF ~(Keywords(camera_index) \subseteq Parameters)
            THEN /\ built' = "TypeError"
                 /\ UNCHANGED <<device, is_opened, video, last_alert_time>>
            ELSE /\ built' = "yes"
                 /\ device' = 0
                 /\ \E opened \in BOOLEAN :
                      /\ is_opened' = opened
                      /\ video' = opened
                 /\ last_alert_time' = now
    /\ UNCHANGED <<initialized, refused>>
    /\ UNCHANGED <<camButVideo, timerVars, mailVars, workerVars, motionVars, recogVars, audioVars, captureVars, managerVars>>

GF_NoDeviceCounts(t) ==
    /\ built = "yes"
    /\ pc[t] = "idle"
    /\ refused < MaxRefused
    /\ refused' = refused + 1
    /\ frame_count' = frame_count + 1
    /\ UNCHANGED <<built, ctor_call, device, is_opened, initialized>>
    /\ UNCHANGED <<now, ticks, video, captured, budget, frames, frame_buffer,
                   running_buffer, alert_buffer, last_alert_time, detected_faces, lock,
                   pc, local, attempts, events, stamps, outbox, appended>>
    /\ UNCHANGED <<timerVars, mailVars, workerVars, motionVars, recogVars, audioVars, captureVars, managerVars>>

\* get_frame: if not self.video: return None
GF_NoDevice(t) ==
    /\ built = "yes"
    /\ pc[t] = "idle"
    /\ ~video
    /\ refused < MaxRefused
    /\ refused' = refused + 1
    /\ UNCHANGED <<built, ctor_call, device, is_opened, initialized>>
    /\ UNCHANGED <<camVars, timerVars, mailVars, workerVars, motionVars, recogVars, audioVars, captureVars, managerVars>>

\* before the VideoCamera(...) call there is no device and nothing has been captured
InitConstruct ==
    /\ InitTimer /\ InitMail /\ InitWorker(0, <<>>) /\ InitMotion /\ InitGallery(<<>>)
    /\ InitAudio({}, {}) /\ InitManager
    /\ built = "no" /\ ctor_call = -1 /\ device = -1 /\ is_opened = FALSE
    /\ initialized = "absent" /\ refused = 0
    /\ now = 0 /\ ticks = MaxTicks /\ video = FALSE /\ captured = 0 /\ budget = MaxFrames
    /\ frame_count = 0 /\ frames = <<>> /\ frame_buffer = <<>> /\ running_buffer = <<>>
    /\ alert_buffer = <<>> /\ last_alert_time = 0 /\ detected_faces = 1 /\ lock = "free"
    /\ pc = [t \in Threads |-> "idle"] /\ local = [t \in Threads |-> NoLocal]
    /\ attempts = <<>> /\ events = <<>> /\ stamps = <<>> /\ outbox = <<>> /\ appended = {}
    /\ se_request

Built == built = "yes"

\* the clock runs before and after the call; get_frame needs the instance
NextConstruct ==
    Construct \/ Tick \/ GF_NoDevice("t1") \/ GetFrame("t1") \/ LogEvent("t1")

SpecConstruct == InitConstruct /\ [][NextConstruct]_vars

\* --------------------------------------------------------------------
\* AudioSource (camera/audio_source.py): device resolution, construction and start

Devices == {"sysdefault:CARD=webcam", "default", "hw:1"}

\* the device arguments passed: None (as AudioSource() does), an empty and a given name
DeviceArgs == {"None", "", "hw:1"}

Truthy(name) == name # "None" /\ name # ""

\* list_usable_audio_devices(): the listed devices a probing open succeeds on
list_usable_audio_devices == {d \in pcms : d \in opens}

DefaultFirst(devices) ==
    IF "default" \in devices THEN "default"
    ELSE IF "sysdefault:CARD=webcam" \in devices THEN "sysdefault:CARD=webcam"
    ELSE "None"

\* get_default_device(), given the usable devices
get_default_device(devices) ==
    IF "sysdefault:CARD=webcam" \in devices THEN "sysdefault:CARD=webcam"
    ELSE IF "default" \in devices THEN "default"
    ELSE "None"

notAudio == <<camVars, timerVars, mailVars, workerVars, motionVars, recogVars, constructVars,
              managerVars>>

\* AudioSource(device=...): resolve the device, then open it; ALSAAudioError raised
\* by the open or by the settings that follow it leaves self.inp = None
A_Construct ==
    /\ ~a_built
    /\ a_built' = TRUE
    /\ \E device_arg \in DeviceArgs :
         /\ a_arg' = device_arg
         /\ a_device' = IF Truthy(device_arg) THEN device_arg
                        ELSE get_default_device(list_usable_audio_devices)
    /\ IF Truthy(a_device')
       THEN \E ok \in BOOLEAN : inp' = ok
       ELSE inp' = FALSE
    /\ UNCHANGED <<pcms, opens, started, thread, named, start_called>>
    /\ UNCHANGED <<notAudio, captureVars, managerVars>>

\* start()
A_Start ==
    /\ a_built
    /\ ~start_called
    /\ start_called' = TRUE
    /\ IF ~inp
       THEN UNCHANGED <<started, thread, upc>>
       ELSE /\ started' = TRUE
            /\ thread' = "started"
            /\ upc' = "loop"
    /\ UNCHANGED <<pcms, opens, a_built, a_arg, a_device, inp, named>>
    /\ UNCHANGED <<volume, listeners, chunks, calls, spc, stop_requested>>
    /\ UNCHANGED notAudio

\* get_device_name()
A_GetDeviceName ==
    /\ a_built
    /\ named' = IF inp THEN a_device ELSE "None"
    /\ UNCHANGED <<pcms, opens, a_built, a_arg, a_device, inp, started, thread, start_called>>
    /\ UNCHANGED <<notAudio, captureVars, managerVars>>

InitAudioHost ==
    /\ InitCamera /\ InitTimer /\ InitMail /\ InitWorker(0, <<>>)
    /\ InitMotion /\ InitGallery(<<>>) /\ InitBuilt
    /\ \E listed \in SUBSET Devices, opening \in SUBSET Devices : InitAudio(listed, opening)
    /\ InitManager
    /\ se_request /\ ticks = MaxTicks /\ budget = MaxFrames

NextAudio == A_Construct \/ A_Start \/ A_GetDeviceName

SpecAudio == InitAudioHost /\ [][NextAudio]_vars

\* --------------------------------------------------------------------
\* AudioSource: the capture thread (update), listeners and stop

Volumes == {volume_threshold, volume_threshold + 1}
ListenerNames == {"on_sound", "on_alarm"}

\* def trigger_event(self, volume) and the call self.trigger_event(volume, timestamp)
trigger_event_parameters == <<"self", "volume">>
trigger_event_arguments == <<"self", "volume", "timestamp">>

\* a call binds when it passes as many positional arguments as there are parameters
Binds(parameters, arguments) == Len(arguments) = Len(parameters)

\* for listener in self.listeners: listener(volume)
CallAll(chunk, value) ==
    [l \in 1..Len(listeners) |-> [chunk |-> chunk, listener |-> listeners[l], value |-> value]]

\* add_listener(listener_func), by a client before it starts the capture
A_AddListener ==
    /\ a_built
    /\ ~start_called
    /\ Len(listeners) < MaxListeners
    /\ \E listener_func \in ListenerNames :
         /\ \A l \in 1..Len(listeners) : listeners[l] # listener_func
         /\ listeners' = Append(listeners, listener_func)
    /\ UNCHANGED <<upc, volume, chunks, calls, spc, stop_requested>>
    /\ UNCHANGED <<audioVars, notAudio>>

\* update: while self.started and self.inp
U_Test ==
    /\ upc = "loop"
    /\ upc' = IF started /\ inp THEN "read" ELSE "exited"
    /\ UNCHANGED <<volume, listeners, chunks, calls, spc, stop_requested>>
    /\ UNCHANGED <<audioVars, notAudio>>

\* update: self.inp.read(), the volume of the chunk and the threshold test; an
\* ALSAAudioError is caught and an empty read is passed over
U_Read ==
    /\ upc = "read"
    /\ Len(chunks) < MaxChunks
    /\ \/ /\ upc' = "stop"
          /\ UNCHANGED <<volume, chunks>>
       \/ \E v \in Volumes :
            /\ chunks' = Append(chunks, v)
            /\ volume' = v
            /\ upc' = IF v > volume_threshold THEN "trigger" ELSE "stop"
    /\ UNCHANGED <<listeners, calls, spc, stop_requested>>
    /\ UNCHANGED <<audioVars, notAudio>>

\* update: self.trigger_event(volume, timestamp); a TypeError raised by the call is
\* not caught and ends the thread
U_Trigger ==
    /\ upc = "trigger"
    /\ IF Binds(trigger_event_parameters, trigger_event_arguments)
       THEN /\ calls' = calls \o CallAll(Len(chunks), volume)
            /\ upc' = "stop"
       ELSE /\ upc' = "crashed"
            /\ UNCHANGED calls
    /\ UNCHANGED <<volume, listeners, chunks, spc, stop_requested>>
    /\ UNCHANGED <<audioVars, notAudio>>

\* update: self.stop(), the last statement of the loop body, on the capture thread:
\* it clears the flag and does not join itself
U_Stop ==
    /\ upc = "stop"
    /\ started' = FALSE
    /\ upc' = "loop"
    /\ UNCHANGED <<pcms, opens, a_built, a_arg, a_device, inp, thread, named, start_called>>
    /\ UNCHANGED <<volume, listeners, chunks, calls, spc, stop_requested>>
    /\ UNCHANGED notAudio

Terminated == upc \in {"exited", "crashed"}

\* stop() called by a client thread: self.started = False, then
\* if self.inp and self.thread, where self.thread exists only once start() has set it
S_Stop ==
    /\ a_built
    /\ spc = "idle"
    /\ stop_requested' = TRUE
    /\ started' = FALSE
    /\ spc' = IF ~inp THEN "returned"
              ELSE IF thread = "none" THEN "AttributeError"
              ELSE "join"
    /\ UNCHANGED <<pcms, opens, a_built, a_arg, a_device, inp, thread, named, start_called>>
    /\ UNCHANGED <<upc, volume, listeners, chunks, calls>>
    /\ UNCHANGED notAudio

\* stop(): self.thread.join() returns once the capture thread has ended
S_Join ==
    /\ spc = "join"
    /\ Terminated
    /\ spc' = "returned"
    /\ UNCHANGED <<upc, volume, listeners, chunks, calls, stop_requested>>
    /\ UNCHANGED <<audioVars, notAudio>>

NextCapture ==
    \/ A_Construct \/ A_AddListener \/ A_Start
    \/ U_Test \/ U_Read \/ U_Trigger \/ U_Stop
    \/ S_Stop \/ S_Join

SpecCapture == InitAudioHost /\ [][NextCapture]_vars

\* --------------------------------------------------------------------
\* CameraManager and VideoStream (camera/camera_manager.py)

Images == {"image_a", "image_b"}

\* what the device behind each camera id yields: changing scenes, or a still one
Feed == [front |-> Images, door |-> {"image_b"}]
Operations == {"add_camera", "get_frame", "remove_camera"}

notManager == <<camVars, timerVars, mailVars, workerVars, motionVars, recogVars, constructVars,
                audioVars, captureVars>>

Registered(s) == \E camera_id \in DOMAIN cameras : cameras[camera_id] = s

\* a VideoStream no dictionary entry refers to and whose thread is not running
Free(s) == streams[s].upc \in {"none", "exited"} /\ ~Registered(s)
FreeSlots == {s \in Slots : Free(s)}
Lowest(S) == CHOOSE s \in S : \A other \in S : s <= other

Adding(c) == cpc[c] # "idle" /\ cop[c].op = "add_camera"

\* a VideoStream that is unregistered and whose thread has ended is garbage
Collected == [NoStream EXCEPT !.upc = "exited"]

\* read(): return self.frame.copy()
Copy(image) == [image |-> image, owner |-> "caller"]

\* a caller enters add_camera, get_frame or remove_camera; a caller enters add_camera
\* only while a VideoStream slot is left for it
CM_Call(c) ==
    /\ cpc[c] = "idle"
    /\ \E operation \in Operations, camera_id \in DOMAIN cameras :
         /\ operation = "add_camera" =>
                Cardinality(FreeSlots) > Cardinality({other \in Callers \ {c} : Adding(other)})
         /\ cop' = [cop EXCEPT ![c] = [op |-> operation, id |-> camera_id]]
    /\ cpc' = [cpc EXCEPT ![c] = "acquire"]
    /\ UNCHANGED <<streams, cameras, mlock, cres>>
    /\ UNCHANGED notManager

\* with self.lock, entered
CM_Acquire(c) ==
    /\ cpc[c] = "acquire"
    /\ mlock = "free"
    /\ mlock' = c
    /\ cpc' = [cpc EXCEPT ![c] = cop[c].op]
    /\ UNCHANGED <<streams, cameras, cop, cres>>
    /\ UNCHANGED notManager

\* VideoStream(src).start(): __init__ reads a first frame, which may fail, and start
\* runs update on a new thread
NewStream(camera_id, image) ==
    [id |-> camera_id, frame |-> image, stopped |-> FALSE, upc |-> "test",
     grabbed |-> "None", slock |-> "free", latest |-> image, failed |-> FALSE]

Found(c, s) ==
    [op |-> cop[c].op, registered |-> s # 0, frame |-> "None", owner |-> "none",
     latest |-> IF s # 0 THEN streams[s].latest ELSE "None",
     failed |-> IF s # 0 THEN streams[s].failed ELSE FALSE]

CM_AddAlways(c) ==
    /\ cpc[c] = "add_camera"
    /\ FreeSlots # {}
    /\ \E image \in Feed[cop[c].id] \cup {"None"} :
         /\ streams' = [streams EXCEPT ![Lowest(FreeSlots)] = NewStream(cop[c].id, image)]
         /\ cameras' = [cameras EXCEPT ![cop[c].id] = Lowest(FreeSlots)]
    /\ cres' = Found(c, cameras[cop[c].id])
    /\ cpc' = [cpc EXCEPT ![c] = "release"]
    /\ UNCHANGED <<mlock, cop>>
    /\ UNCHANGED notManager

\* add_camera: if camera_id not in self.cameras: self.cameras[camera_id] = VideoStream(src).start()
CM_Add(c) ==
    /\ cpc[c] = "add_camera"
    /\ IF cameras[cop[c].id] = 0
       THEN \E image \in Feed[cop[c].id] \cup {"None"} :
              /\ streams' = [streams EXCEPT ![Lowest(FreeSlots)] = NewStream(cop[c].id, image)]
              /\ cameras' = [cameras EXCEPT ![cop[c].id] = Lowest(FreeSlots)]
       ELSE UNCHANGED <<streams, cameras>>
    /\ cres' = Found(c, cameras[cop[c].id])
    /\ cpc' = [cpc EXCEPT ![c] = "release"]
    /\ UNCHANGED <<mlock, cop>>
    /\ UNCHANGED notManager

\* get_frame: if camera_id in self.cameras ... else return None
CM_Get(c) ==
    /\ cpc[c] = "get_frame"
    /\ IF cameras[cop[c].id] # 0
       THEN /\ cpc' = [cpc EXCEPT ![c] = "read"]
            /\ UNCHANGED cres
       ELSE /\ cres' = Found(c, 0)
            /\ cpc' = [cpc EXCEPT ![c] = "release"]
    /\ UNCHANGED <<streams, cameras, mlock, cop>>
    /\ UNCHANGED notManager

\* get_frame: self.cameras[camera_id].read(), whose body runs under the stream's lock
CM_Read(c) ==
    /\ cpc[c] = "read"
    /\ LET s == cameras[cop[c].id]
       IN  /\ streams[s].slock = "free"
           /\ cres' = IF streams[s].frame # "None"
                      THEN [Found(c, s) EXCEPT !.frame = Copy(streams[s].frame).image,
                                               !.owner = Copy(streams[s].frame).owner]
                      ELSE Found(c, s)
    /\ cpc' = [cpc EXCEPT ![c] = "release"]
    /\ UNCHANGED <<streams, cameras, mlock, cop>>
    /\ UNCHANGED notManager

\* remove_camera: self.cameras[camera_id].stop() (self.stopped = True;
\* self.cap.release()) and del self.cameras[camera_id]
CM_Remove(c) ==
    /\ cpc[c] = "remove_camera"
    /\ IF cameras[cop[c].id] # 0
       THEN /\ streams' = [streams EXCEPT ![cameras[cop[c].id]] =
                             IF @.upc = "exited" THEN Collected ELSE [@ EXCEPT !.stopped = TRUE]]
            /\ cameras' = [cameras EXCEPT ![cop[c].id] = 0]
       ELSE UNCHANGED <<streams, cameras>>
    /\ cres' = Found(c, cameras[cop[c].id])
    /\ cpc' = [cpc EXCEPT ![c] = "release"]
    /\ UNCHANGED <<mlock, cop>>
    /\ UNCHANGED notManager

CM_ReleaseKeepsLock(c) ==
    /\ cpc[c] = "release"
    /\ cpc' = [cpc EXCEPT ![c] = "idle"]
    /\ cop' = [cop EXCEPT ![c] = NoCall]
    /\ cres' = NoResult
    /\ UNCHANGED <<streams, cameras, mlock>>
    /\ UNCHANGED notManager

\* the with block of the manager is left and the call returns
CM_Release(c) ==
    /\ cpc[c] = "release"
    /\ mlock' = "free"
    /\ cpc' = [cpc EXCEPT ![c] = "idle"]
    /\ cop' = [cop EXCEPT ![c] = NoCall]
    /\ cres' = NoResult
    /\ UNCHANGED <<streams, cameras>>
    /\ UNCHANGED notManager

\* update: while not self.stopped
VS_Test(s) ==
    /\ streams[s].upc = "test"
    /\ streams' = [streams EXCEPT ![s] = IF @.stopped THEN Collected ELSE [@ EXCEPT !.upc = "cap"]]
    /\ UNCHANGED <<cameras, mlock, cpc, cop, cres>>
    /\ UNCHANGED notManager

\* update: grabbed, frame = self.cap.read(); a released capture yields no frame
VS_CapRead(s) ==
    /\ streams[s].upc = "cap"
    /\ \E image \in Feed[streams[s].id] \cup {"None"} :
         /\ streams[s].stopped => image = "None"
         /\ streams' = [streams EXCEPT ![s].grabbed = image, ![s].upc = "lock"]
    /\ UNCHANGED <<cameras, mlock, cpc, cop, cres>>
    /\ UNCHANGED notManager

\* update: with self.lock, entered
VS_Lock(s) ==
    /\ streams[s].upc = "lock"
    /\ streams[s].slock = "free"
    /\ streams' = [streams EXCEPT ![s].slock = "update", ![s].upc = "store"]
    /\ UNCHANGED <<cameras, mlock, cpc, cop, cres>>
    /\ UNCHANGED notManager

\* the slot after the with block of update, given what a failed read leaves in it
Stored(stream, on_failure) ==
    IF stream.grabbed # "None"
    THEN [stream EXCEPT !.frame = stream.grabbed, !.latest = stream.grabbed,
                        !.upc = "test", !.grabbed = "None", !.slock = "free"]
    ELSE [stream EXCEPT !.frame = on_failure, !.failed = TRUE,
                        !.upc = "exited", !.slock = "free"]

VS_StoreKeepsFrame(s) ==
    /\ streams[s].upc = "store"
    /\ streams' = [streams EXCEPT ![s] = Stored(@, @.frame)]
    /\ UNCHANGED <<cameras, mlock, cpc, cop, cres>>
    /\ UNCHANGED notManager

\* update: if grabbed: self.frame = frame, else: self.frame = None; break, and the
\* with block is left
VS_Store(s) ==
    /\ streams[s].upc = "store"
    /\ streams' = [streams EXCEPT ![s] =
                     IF @.grabbed = "None" /\ ~Registered(s) THEN Collected ELSE Stored(@, "None")]
    /\ UNCHANGED <<cameras, mlock, cpc, cop, cres>>
    /\ UNCHANGED notManager

Caller(c) ==
    \/ CM_Call(c) \/ CM_Acquire(c) \/ CM_Add(c) \/ CM_Get(c) \/ CM_Read(c)
    \/ CM_Remove(c) \/ CM_Release(c)

Update(s) == VS_Test(s) \/ VS_CapRead(s) \/ VS_Lock(s) \/ VS_Store(s)

\* Two callers of one CameraManager and the capture threads of its streams
InitManaged ==
    /\ InitCamera /\ InitTimer /\ InitMail /\ InitWorker(0, <<>>) /\ InitUnits
    /\ se_request /\ ticks = MaxTicks /\ budget = MaxFrames

NextManaged == (\E c \in Callers : Caller(c)) \/ (\E s \in Slots : Update(s))

SpecManager == InitManaged /\ [][NextManaged]_vars

\* The same callers using one camera id, for the progress of calls and threads
InitManagedLive ==
    /\ InitCamera /\ InitTimer /\ InitMail /\ InitWorker(0, <<>>)
    /\ InitMotion /\ InitGallery(<<>>) /\ InitBuilt /\ InitAudio({}, {})
    /\ InitManagerFor({"door"})
    /\ se_request /\ ticks = MaxTicks /\ budget = MaxFrames

\* a started thread keeps running, and a thread waiting for a lock gets it when it
\* is free again and again; a caller need not call
Scheduling ==
    /\ \A c \in Callers :
         /\ WF_vars(CM_Add(c) \/ CM_Get(c) \/ CM_Remove(c) \/ CM_Release(c))
         /\ SF_vars(CM_Acquire(c))
         /\ SF_vars(CM_Read(c))
    /\ \A s \in Slots : WF_vars(Update(s))

SpecManagerLive == InitManagedLive /\ [][NextManaged]_vars /\ Scheduling

\* --------------------------------------------------------------------
\* SendEmail (camera/send_email.py): clients log events, hand over frames, faces and
\* a clip path; one thread at a time runs send_email_snapshot

mailFields == <<se_alert_buffer, se_frame_buffer, se_video_file_path>>

FaceSets == {<<>>, <<"alice">>}
ClipPaths == {"clip.mp4"}

\* a client may act while send_email_snapshot runs (other threads), or only between calls
ClientMay(concurrent) == concurrent \/ mpc = "idle"

\* log_event(event): self.alert_buffer.append(log_entry)
M_LogEvent(concurrent) ==
    /\ ClientMay(concurrent)
    /\ se_logged < MaxLog
    /\ se_logged' = se_logged + 1
    /\ se_alert_buffer' = Append(se_alert_buffer, se_logged + 1)
    /\ UNCHANGED <<se_request, se_frame_buffer, se_detected_faces, se_video_file_path,
                   mpc, mlocal, before, result, se_added, se_outbox>>
    /\ UNCHANGED <<camVars, timerVars, workerVars, unitVars>>

\* the owner of the notifier appends a frame to its public frame_buffer
M_AddFrame(concurrent) ==
    /\ ClientMay(concurrent)
    /\ se_added < MaxSnap
    /\ se_added' = se_added + 1
    /\ se_frame_buffer' = Append(se_frame_buffer, se_added + 1)
    /\ UNCHANGED <<se_request, se_alert_buffer, se_detected_faces, se_video_file_path,
                   mpc, mlocal, before, result, se_logged, se_outbox>>
    /\ UNCHANGED <<camVars, timerVars, workerVars, unitVars>>

\* set_detected_faces(faces)
M_SetDetectedFaces(concurrent) ==
    /\ ClientMay(concurrent)
    /\ \E faces \in FaceSets :
         /\ faces # se_detected_faces
         /\ se_detected_faces' = faces
    /\ UNCHANGED <<se_request, se_alert_buffer, se_frame_buffer, se_video_file_path,
                   mpc, mlocal, before, result, se_logged, se_added, se_outbox>>
    /\ UNCHANGED <<camVars, timerVars, workerVars, unitVars>>

\* set_video_file_path(file_path)
M_SetVideoFilePath(concurrent) ==
    /\ ClientMay(concurrent)
    /\ \E file_path \in ClipPaths :
         /\ file_path # se_video_file_path
         /\ se_video_file_path' = file_path
    /\ UNCHANGED <<se_request, se_alert_buffer, se_frame_buffer, se_detected_faces,
                   mpc, mlocal, before, result, se_logged, se_added, se_outbox>>
    /\ UNCHANGED <<camVars, timerVars, workerVars, unitVars>>

\* send_email_snapshot returns (or its except clause has caught an exception)
M_End(how) ==
    /\ mpc' = "returned"
    /\ result' = how
    /\ mlocal' = NoMessage

\* send_email_snapshot is called: if not self.alert_buffer: return
M_Start ==
    /\ mpc = "idle"
    /\ before' = mailFields
    /\ IF se_alert_buffer = <<>>
       THEN M_End("empty_log")
       ELSE /\ mpc' = "settings"
            /\ result' = "none"
            /\ UNCHANGED mlocal
    /\ UNCHANGED <<se_request, se_alert_buffer, se_frame_buffer, se_detected_faces,
                   se_video_file_path, se_logged, se_added, se_outbox>>
    /\ UNCHANGED <<camVars, timerVars, workerVars, unitVars>>

\* send_email_snapshot: EmailSettings.objects.get(user=...), or return without a request
M_Settings ==
    /\ mpc = "settings"
    /\ IF se_request
       THEN \E found \in BOOLEAN :
              IF found
              THEN /\ mpc' = "body"
                   /\ UNCHANGED <<mlocal, result>>
              ELSE M_End("settings_error")
       ELSE M_End("no_request")
    /\ UNCHANGED <<se_request, se_alert_buffer, se_frame_buffer, se_detected_faces,
                   se_video_file_path, before, se_logged, se_added, se_outbox>>
    /\ UNCHANGED <<camVars, timerVars, workerVars, unitVars>>

\* send_email_snapshot: body = "\n".join(self.alert_buffer)
M_Body ==
    /\ mpc = "body"
    /\ mlocal' = [mlocal EXCEPT !.body = se_alert_buffer]
    /\ mpc' = "faces"
    /\ UNCHANGED <<se_request, se_alert_buffer, se_frame_buffer, se_detected_faces,
                   se_video_file_path, before, result, se_logged, se_added, se_outbox>>
    /\ UNCHANGED <<camVars, timerVars, workerVars, unitVars>>

\* send_email_snapshot: if self.detected_faces
M_FacesTest ==
    /\ mpc = "faces"
    /\ mpc' = IF se_detected_faces # <<>> THEN "labels" ELSE "ensure"
    /\ UNCHANGED <<se_request, se_alert_buffer, se_frame_buffer, se_detected_faces,
                   se_video_file_path, mlocal, before, result, se_logged, se_added,
                   se_outbox>>
    /\ UNCHANGED <<camVars, timerVars, workerVars, unitVars>>

\* send_email_snapshot: for i, face in enumerate(self.detected_faces)
M_FacesLabels ==
    /\ mpc = "labels"
    /\ mlocal' = [mlocal EXCEPT !.faces = se_detected_faces]
    /\ mpc' = "ensure"
    /\ UNCHANGED <<se_request, se_alert_buffer, se_frame_buffer, se_detected_faces,
                   se_video_file_path, before, result, se_logged, se_added, se_outbox>>
    /\ UNCHANGED <<camVars, timerVars, workerVars, unitVars>>

\* send_email_snapshot, "Ensure at least two frames are available":
\* the frame buffer after the block
EnsureTwoFrames(buffer) ==
    IF Len(buffer) < 2 /\ Len(buffer) = 1
    THEN Append(buffer, buffer[1])
    ELSE buffer

M_Ensure ==
    /\ mpc = "ensure"
    /\ IF Len(se_frame_buffer) < 2 /\ Len(se_frame_buffer) # 1 /\ Len(se_frame_buffer) = 0
       THEN /\ M_End("no_frames")
            /\ UNCHANGED se_frame_buffer
       ELSE /\ se_frame_buffer' = EnsureTwoFrames(se_frame_buffer)
            /\ mpc' = "select"
            /\ UNCHANGED <<mlocal, result>>
    /\ UNCHANGED <<se_request, se_alert_buffer, se_detected_faces, se_video_file_path,
                   before, se_logged, se_added, se_outbox>>
    /\ UNCHANGED <<camVars, timerVars, workerVars, unitVars>>

\* send_email_snapshot: selected_frames and one MIMEImage per selected frame
M_Select ==
    /\ mpc = "select"
    /\ mlocal' = [mlocal EXCEPT !.images = select_representative_frames(se_frame_buffer, num_frames)]
    /\ mpc' = "video"
    /\ UNCHANGED <<se_request, se_alert_buffer, se_frame_buffer, se_detected_faces,
                   se_video_file_path, before, result, se_logged, se_added, se_outbox>>
    /\ UNCHANGED <<camVars, timerVars, workerVars, unitVars>>

\* send_email_snapshot: if self.video_file_path: open(...) and attach; open may raise
M_Video ==
    /\ mpc = "video"
    /\ IF se_video_file_path # "None"
       THEN \E readable \in BOOLEAN :
              IF readable
              THEN /\ mlocal' = [mlocal EXCEPT !.video = se_video_file_path]
                   /\ mpc' = "smtp"
                   /\ UNCHANGED result
              ELSE M_End("video_error")
       ELSE /\ mpc' = "smtp"
            /\ UNCHANGED <<mlocal, result>>
    /\ UNCHANGED <<se_request, se_alert_buffer, se_frame_buffer, se_detected_faces,
                   se_video_file_path, before, se_logged, se_added, se_outbox>>
    /\ UNCHANGED <<camVars, timerVars, workerVars, unitVars>>

\* send_email_snapshot: smtplib.SMTP(...), starttls, login, sendmail, quit
M_Smtp ==
    /\ mpc = "smtp"
    /\ \E ok \in BOOLEAN :
         IF ok
         THEN /\ se_outbox' = Append(se_outbox, mlocal)
              /\ mpc' = "clear_alert"
              /\ UNCHANGED <<mlocal, result>>
         ELSE /\ M_End("transport_error")
              /\ UNCHANGED se_outbox
    /\ UNCHANGED <<se_request, se_alert_buffer, se_frame_buffer, se_detected_faces,
                   se_video_file_path, before, se_logged, se_added>>
    /\ UNCHANGED <<camVars, timerVars, workerVars, unitVars>>

\* send_email_snapshot: self.alert_buffer = []
M_ClearAlert ==
    /\ mpc = "clear_alert"
    /\ se_alert_buffer' = <<>>
    /\ mpc' = "clear_frames"
    /\ UNCHANGED <<se_request, se_frame_buffer, se_detected_faces, se_video_file_path,
                   mlocal, before, result, se_logged, se_added, se_outbox>>
    /\ UNCHANGED <<camVars, timerVars, workerVars, unitVars>>

\* send_email_snapshot: self.frame_buffer = []
M_ClearFrames ==
    /\ mpc = "clear_frames"
    /\ se_frame_buffer' = <<>>
    /\ mpc' = "clear_video"
    /\ UNCHANGED <<se_request, se_alert_buffer, se_detected_faces, se_video_file_path,
                   mlocal, before, result, se_logged, se_added, se_outbox>>
    /\ UNCHANGED <<camVars, timerVars, workerVars, unitVars>>

\* send_email_snapshot: self.video_file_path = None
M_ClearVideo ==
    /\ mpc = "clear_video"
    /\ se_video_file_path' = "None"
    /\ M_End("sent")
    /\ UNCHANGED <<se_request, se_alert_buffer, se_frame_buffer, se_detected_faces,
                   before, se_logged, se_added, se_outbox>>
    /\ UNCHANGED <<camVars, timerVars, workerVars, unitVars>>

\* the caller of send_email_snapshot goes on
M_Return ==
    /\ mpc = "returned"
    /\ mpc' = "idle"
    /\ UNCHANGED <<se_request, se_alert_buffer, se_frame_buffer, se_detected_faces,
                   se_video_file_path, mlocal, before, result, se_logged, se_added,
                   se_outbox>>
    /\ UNCHANGED <<camVars, timerVars, workerVars, unitVars>>

SendEmailSnapshot ==
    \/ M_Start \/ M_Settings \/ M_Body \/ M_FacesTest \/ M_FacesLabels \/ M_Ensure
    \/ M_Select \/ M_Video \/ M_Smtp \/ M_ClearAlert \/ M_ClearFrames \/ M_ClearVideo
    \/ M_Return

Clients(concurrent) ==
    \/ M_LogEvent(concurrent) \/ M_AddFrame(concurrent)
    \/ M_SetDetectedFaces(concurrent) \/ M_SetVideoFilePath(concurrent)

InitNotifier ==
    /\ InitCamera /\ InitTimer /\ InitMail /\ InitWorker(0, <<>>) /\ InitUnits
    /\ ticks = MaxTicks /\ budget = MaxFrames

\* SendEmail used from one thread: every call returns before the next one starts
NextMailSeq == SendEmailSnapshot \/ Clients(FALSE)

SpecMailSeq == InitNotifier /\ [][NextMailSeq]_vars

\* SendEmail shared by threads: clients act while send_email_snapshot is running
NextMail == SendEmailSnapshot \/ Clients(TRUE)

SpecMail == InitNotifier /\ [][NextMail]_vars

\* --------------------------------------------------------------------
\* C1: for one camera, any two successive dispatch attempts (calls of
\* send_email_snapshot made by log_event) are at least alert_interval apart,
\* also when several threads drive log_event concurrently.
C1_AlertsSpaced ==
    \A k \in 1..(Len(attempts) - 1) : attempts[k + 1] - attempts[k] >= alert_interval

\* C2 as claimed: on a freshly constructed pipeline, two motion events logged 1 s
\* apart produce exactly one dispatch attempt, and two logged 31 s apart produce two.
TwoEventsDone == Len(events) = 2 /\ pc["t1"] = "idle"

C3_TimerSurvivesFailure ==
    (tpc = "none" /\ cycle = "failed" /\ ~torn_down) => save_timer = "pending"

Range(q) == {q[k] : k \in 1..Len(q)}

\* the for loop of save_running_buffer_clip holds the list it encodes
HandedOff == tpc \in {"write", "release", "save", "reset"}

\* C4: no frame is appended to the buffer handed off for encoding, and no frame
\* appended meanwhile is discarded by the reset that follows the encoding: every
\* frame ever appended is in a clip or still in the running buffer.
C4_AtomicHandOff ==
    /\ HandedOff => Len(running_buffer) = handed
    /\ appended \subseteq (Range(running_buffer) \cup Range(out) \cup encoded)

\* C5: when a dispatch fails with a transport error (SMTP connect, login or send
\* raises), alert log, snapshot buffer and clip path are what they were when
\* send_email_snapshot was called.
C5_TransportErrorKeepsState ==
    (mpc = "returned" /\ result = "transport_error") => mailFields = before

Last(q) == q[Len(q)]

\* C6, for the dispatch log_event invokes (VideoCamera.send_email_snapshot): a
\* message sent from a snapshot buffer of exactly one frame carries that frame twice,
\* and no message is sent from an empty snapshot buffer.
C6_CameraDuplicatesFrame ==
    pc["t1"] = "clear_alert" =>
        /\ frame_buffer # <<>>
        /\ Len(frame_buffer) = 1 =>
              Last(outbox).images = <<frame_buffer[1], frame_buffer[1]>>

\* The same rule for SendEmail.send_email_snapshot called from one thread: it holds
\* there (the block "Ensure at least two frames are available").
NotifierDuplicatesFrame ==
    mpc = "returned" =>
        /\ (result = "sent" /\ Len(before[2]) = 1) =>
              Last(se_outbox).images = <<before[2][1], before[2][1]>>
        /\ (before[1] # <<>> /\ before[2] = <<>>) =>
              (result # "sent" /\ mailFields = before)

\* C7: the alert log is cleared atomically with a successful dispatch: every entry
\* logged is in the body of a sent message or still in the alert log.
C7_NoEntryLost ==
    \A e \in 1..se_logged :
        \/ e \in Range(se_alert_buffer)
        \/ \E k \in 1..Len(se_outbox) : e \in Range(se_outbox[k].body)

\* C8: the recognition queue and the snapshot buffer are size-capped: in every
\* reachable state each holds at most buffer_size items.
C8_BuffersCapped ==
    /\ Len(frames) <= buffer_size
    /\ Len(frame_buffer) <= buffer_size

\* C9: when a clip cycle fails, the running buffer is empty afterwards.
C9_FailureClearsBuffer ==
    [][(tpc # "none" /\ tpc' = "none" /\ cycle' = "failed") => running_buffer' = <<>>]_vars

\* C10: the detected-face set is published atomically: what get_frame copied for its
\* overlay, and what the alert body lists, is the complete content of a list that was
\* assigned to self.detected_faces, never a partly built one.
C10_FacesPublishedWhole ==
    /\ \A t \in Threads :
          /\ pc[t] = "overlay" =>
                (local[t].copy \in published /\ local[t].copy = lists[local[t].ref])
          /\ pc[t] \in {"send_frames", "smtp"} => local[t].faces \in published
    /\ \A k \in 1..Len(outbox) : outbox[k].faces \in published

\* a reader has copied the two faces of a list the worker published during the run
C10_Witness ==
    /\ pc["t1"] = "overlay"
    /\ local["t1"].ref > 1
    /\ Len(local["t1"].copy) = 2

\* the scenario of C11: three frames fed, the first and the third identical, the second
\* differing from them by more than the cutoff in the region above the area floor only
Flags == [k \in 1..Len(verdicts) |-> verdicts[k].detected]

ThreeFrameScenario ==
    /\ Len(fed) = 3
    /\ fed[1] = fed[3]
    /\ \A r \in Regions :
          IF RegionArea[r] > min_area
          THEN absdiff(fed[1], fed[2])[r] > thresh
          ELSE fed[1][r] = fed[2][r]

\* C11 as claimed: three frames of which the second differs sharply from the first and
\* the third in one region yield detected = false, true, false.
C11_FalseTrueFalse == ThreeFrameScenario => Flags = <<FALSE, TRUE, FALSE>>

\* C11 as amended: they yield detected = false, true, true, the third frame being
\* compared with the second, and both boxes are the region that differs.
C11_FalseTrueTrue ==
    ThreeFrameScenario =>
        /\ Flags = <<FALSE, TRUE, TRUE>>
        /\ verdicts[2].box = verdicts[3].box
        /\ RegionArea[verdicts[2].box] > min_area

C11_Witness == ThreeFrameScenario /\ verdicts[3].detected

\* C12: motion idempotence: a frame fed a second time in a row returns (False, None),
\* whatever was fed before.
C12_SameFrameNoMotion ==
    \A k \in 2..Len(fed) :
        fed[k] = fed[k - 1] => verdicts[k] = [detected |-> FALSE, box |-> 0]

\* a frame is fed twice right after a call that reported motion
C12_Witness ==
    /\ Len(fed) = 3
    /\ verdicts[2].detected
    /\ fed[3] = fed[2]

\* C13: detected = true only when a lit contour's area is strictly greater than
\* min_area, and the box returned is that of the first such contour in scan order.
C13_StrictAreaFloor ==
    \A k \in 2..Len(fed) :
        LET over == {r \in Lit(absdiff(fed[k - 1], fed[k])) : RegionArea[r] > min_area}
        IN  /\ verdicts[k].detected <=> over # {}
            /\ verdicts[k].detected => verdicts[k].box = Min(over)

\* the distance from a query to its closest gallery entry (gallery not empty)
MinDistance(gallery, features) ==
    Min({euclidean(features, gallery[k].features) : k \in 1..Len(gallery)})

\* the label C14 requires: "Unknown" for an empty gallery or a minimum distance above
\* the threshold, otherwise the label of an entry at minimum distance
Expected(gallery, q) ==
    IF gallery = <<>> \/ MinDistance(gallery, q.features) > q.threshold
    THEN {"Unknown"}
    ELSE {gallery[k].label : k \in {j \in 1..Len(gallery) :
             euclidean(q.features, gallery[j].features) = MinDistance(gallery, q.features)}}

\* C14: every face recognition labels gets the label of the gallery entry at minimum
\* Euclidean distance, and "Unknown" when that distance exceeds the threshold or the
\* gallery is empty.
C14_NearestWithinThreshold ==
    \A k \in 1..Len(recognized) : recognized[k].label \in Expected(known_faces, recognized[k])

\* The same rule for FacialRecognition.recognize_faces alone: it holds there.
RecognizerNearestWithinThreshold ==
    \A k \in 1..Len(recognized) :
        recognized[k].by = "FacialRecognition" =>
            recognized[k].label \in Expected(known_faces, recognized[k])

\* C15: VideoCamera(camera_index=i) opens capture device i and does not raise; the
\* instance has initialized = true when the device reports it is opened and
\* initialized = false when it does not.
C15_ConstructsWithIndex ==
    (built # "no" /\ ctor_call # -1) =>
        /\ built = "yes"
        /\ device = ctor_call
        /\ initialized = (IF is_opened THEN "true" ELSE "false")

\* what get_frame may change: buffers, counters and the alert state
Pipeline == <<captured, frame_count, frames, frame_buffer, running_buffer, alert_buffer,
              last_alert_time, detected_faces, attempts, events, stamps, outbox>>

\* C16: once the device failed to open at construction, every get_frame call returns
\* None and changes no buffer, counter or alert state.
C16_FailedIsTerminal ==
    [][(Built /\ ~is_opened) =>
          /\ ~video' /\ pc'["t1"] = "idle"
          /\ Pipeline' = Pipeline]_vars

\* get_frame has been called, and has returned None, MaxRefused times on such a camera
C16_Witness == Built /\ ~is_opened /\ refused = MaxRefused

\* C17: get_frame is never blocked by the mail transport: no thread that is inside a
\* get_frame call is the one performing the SMTP exchange of a dispatch.
C17_ServingNotInTransport ==
    \A t \in Threads : pc[t] = "smtp" => local[t].direct

\* C18: after teardown no clip-timer firing starts, also when teardown comes while a
\* timer callback is running.
C18_NoFiringAfterTeardown ==
    [][torn_down => ~(tpc = "none" /\ tpc' = "check")]_vars

\* C19: every mutation of the recognition queue, the snapshot buffer, the running
\* buffer, the alert log and the alert timestamp happens with the pipeline's lock
\* held by the mutating thread: the step that mutates takes the lock, so no other
\* thread holds it at that moment.
C19_MutationsUnderLock ==
    [][(\/ frames' # frames
        \/ frame_buffer' # frame_buffer
        \/ running_buffer' # running_buffer
        \/ alert_buffer' # alert_buffer
        \/ last_alert_time' # last_alert_time) => lock = "free"]_vars

\* the devices that are listed and usable
Usable == pcms \cap opens

ChunkDone == upc \notin {"read", "trigger"}

\* C21: every chunk whose volume exceeds the threshold has each registered listener
\* called once with that volume; chunks at or below the threshold call no listener.
C21_ListenersCalled ==
    ChunkDone =>
        \A k \in 1..Len(chunks) :
            LET made == {i \in 1..Len(calls) : calls[i].chunk = k}
            IN  IF chunks[k] > volume_threshold
                THEN \A l \in 1..Len(listeners) :
                        Cardinality({i \in made : calls[i] = [chunk |-> k,
                                                              listener |-> listeners[l],
                                                              value |-> chunks[k]]}) = 1
                ELSE made = {}

\* C22: after start() the capture thread terminates only after a client has called
\* stop().
C22_RunsUntilStopped == Terminated => stop_requested

\* C23: stop() called by a client returns without error in every state, and when a
\* capture thread was started it returns only after that thread has terminated.
C23_StopCooperative ==
    /\ spc # "AttributeError"
    /\ (spc = "returned" /\ thread = "started") => Terminated

\* C24: the recognition worker takes the head of the recognition queue, never pops an
\* empty queue, and every frame it removed goes on to a recognition pass.
C24_EveryRemovedFrameRecognized ==
    [][/\ (wpc = "pop" /\ wpc' # "pop") => (frames # <<>> /\ frames' = Tail(frames))
       /\ (wpc = "count" /\ wpc' # "count") => wpc' = "detect"]_vars

\* C25: of the frames one streaming client reads, exactly those whose count is a
\* multiple of frame_skip_interval are processed; a skipped call returns nothing and
\* leaves the motion baseline, the recognition queue, the snapshot and running
\* buffers, the alert log and the alert timestamp as they were.
C25_SkippedCallsTouchNothing ==
    [][(pc["t1"] = "count" /\ pc'["t1"] # "count") =>
          /\ frame_count' = captured
          /\ IF frame_count' % frame_skip_interval = 0
             THEN pc'["t1"] = "detect"
             ELSE /\ pc'["t1"] = "idle"
                  /\ UNCHANGED <<previous_frame, frames, frame_buffer, running_buffer,
                                 alert_buffer, last_alert_time, events, outbox>>]_vars

\* a third frame was skipped after the second one was processed with motion
C25_Witness ==
    /\ frame_count = 3
    /\ pc["t1"] = "idle"
    /\ frames # <<>>
    /\ running_buffer # <<>>

\* C26: after a firing of the clip timer that found the running buffer empty, and
\* while the camera is not torn down, a Timer is pending again.
C26_EmptyFiringRearms ==
    (tpc = "none" /\ cycle = "empty" /\ ~torn_down) => save_timer = "pending"

\* C27: the label saved in the face-seen record of a recognized face is the label
\* published for that face, "Unknown" included.
C27_StoredLabelIsPublished ==
    \A k \in 1..Len(recognized) : recognized[k].stored = recognized[k].label

\* the streams made for a camera that have not been stopped
Active(camera_id) == {s \in Slots : streams[s].id = camera_id /\ ~streams[s].stopped}

\* every camera_id has at most one stream that is not stopped, the registered one
OneStreamPerCamera ==
    \A camera_id \in DOMAIN cameras :
        /\ Cardinality(Active(camera_id)) <= 1
        /\ cameras[camera_id] # 0 => Active(camera_id) = {cameras[camera_id]}
        /\ cameras[camera_id] = 0 => Active(camera_id) = {}

C29_CallsReturnLoopsExit ==
    /\ \A c \in Callers : (cpc[c] # "idle") ~> (cpc[c] = "idle")
    /\ \A s \in Slots : streams[s].stopped ~> (streams[s].upc = "exited")

\* a stream is stopped while its thread is reading the device, one caller holds the
\* manager lock and the other waits for it
C29_Witness ==
    /\ \E s \in Slots : streams[s].stopped /\ streams[s].upc = "cap"
    /\ cpc["c1"] = "acquire"
    /\ mlock = "c2"

====
